---- MODULE Spec2Model ----
(***************************************************************************)
(* Model of the dev-events application: the Event and Booking mongoose     *)
(* models with their pre-save hooks, the cached connectDB bootstrap and    *)
(* the GET /api/events/[slug] route handler.                               *)
(*                                                                         *)
(* Strings are sequences of one-character strings, so that the regular     *)
(* expressions and the replace/trim/pad chains of the source are computed  *)
(* character by character.                                                 *)
(***************************************************************************)
EXTENDS Integers, Sequences, FiniteSets, TLC

VARIABLES
    events,      \* the events collection: slot id -> document
    probe,       \* the string under test of the single-input specifications
    bookings,    \* the bookings collection: slot id -> document
    bsave,       \* the Booking saves in progress, one per saver
    cached,      \* global.mongoose: [conn, promise]
    attempts,    \* every mongoose.connect promise: its state
    waiters,     \* per connect promise, the callers awaiting it, in order
    callers,     \* every connectDB caller: its position, the promise it awaits
                 \* or awaited last, and its result
    microtasks,  \* the microtask queue: callers whose await is resuming
    uriSet,      \* whether process.env.MONGODB_URI is defined
    nCalls,      \* connectDB calls made so far
    req          \* the GET requests, one per caller

vars == << events, probe, bookings, bsave, cached, attempts, waiters,
           callers, microtasks, uriSet, nCalls, req >>

eventVars == << events, probe >>
bookingVars == << bookings, bsave >>
connVars == << cached, attempts, waiters, callers, microtasks, uriSet, nCalls >>
getVars == << req >>

----------------------------------------------------------------------------
(* Bounds *)

MaxEvents == 2
MaxTitleLen == 4
MaxTimeLen == 5
MaxSlugLen == 3
MaxAttempts == 3
MaxCalls == 4
NCallers == 3
NSavers == 2
NRequests == 2
MaxBookings == 2

----------------------------------------------------------------------------
(* Characters and the JavaScript string primitives the source uses *)

UpperSeq == << "A","B","C","D","E","F","G","H","I","J","K","L","M",
               "N","O","P","Q","R","S","T","U","V","W","X","Y","Z" >>
LowerSeq == << "a","b","c","d","e","f","g","h","i","j","k","l","m",
               "n","o","p","q","r","s","t","u","v","w","x","y","z" >>
DigitSeq == << "0","1","2","3","4","5","6","7","8","9" >>

UpperLetters == { UpperSeq[i] : i \in 1..26 }
LowerLetters == { LowerSeq[i] : i \in 1..26 }
Digits == { DigitSeq[i] : i \in 1..10 }
Whitespace == { " ", "\t", "\n" }

\* \d, \w and \s of a JavaScript regular expression (no u flag)
WordChars == UpperLetters \cup LowerLetters \cup Digits \cup {"_"}
IsDigit(c) == c \in Digits
IsWordChar(c) == c \in WordChars
IsSpace(c) == c \in Whitespace

ValueOf == [ c \in Digits |-> (CHOOSE i \in 1..10 : DigitSeq[i] = c) - 1 ]
DigitVal(c) == ValueOf[c]
DigitChar(n) == DigitSeq[n + 1]

LowerOf == [ c \in UpperLetters |-> LowerSeq[CHOOSE i \in 1..26 : UpperSeq[i] = c] ]
ToLowerChar(c) == IF c \in UpperLetters THEN LowerOf[c] ELSE c

\* String.prototype.toLowerCase
StrToLower(s) == [ i \in 1..Len(s) |-> ToLowerChar(s[i]) ]

SetMin(S) == CHOOSE x \in S : \A y \in S : x <= y
SetMax(S) == CHOOSE x \in S : \A y \in S : x >= y

\* String.prototype.trim: whitespace is removed at both ends, nothing else
StrTrim(s) ==
    LET keep == { i \in 1..Len(s) : ~IsSpace(s[i]) }
    IN IF keep = {} THEN << >> ELSE SubSeq(s, SetMin(keep), SetMax(keep))

\* parseInt(s, 10) of a string of decimal digits
RECURSIVE ParseInt(_)
ParseInt(s) ==
    IF s = << >> THEN 0
    ELSE 10 * ParseInt(SubSeq(s, 1, Len(s) - 1)) + DigitVal(s[Len(s)])

\* Number.prototype.toString of a natural number
RECURSIVE NumToString(_)
NumToString(n) ==
    IF n < 10 THEN << DigitChar(n) >>
    ELSE NumToString(n \div 10) \o << DigitChar(n % 10) >>

\* A padStart that pads nothing
PadStartNothing(s, width) == s

\* String.prototype.padStart(width, '0')
RECURSIVE PadStart(_, _)
PadStart(s, width) ==
    IF Len(s) >= width THEN s ELSE PadStart(<< "0" >> \o s, width)

\* All strings over an alphabet up to a length
RECURSIVE StringsUpTo(_, _)
StringsUpTo(alphabet, n) ==
    IF n = 0 THEN { << >> }
    ELSE LET shorter == StringsUpTo(alphabet, n - 1)
         IN shorter \cup { s \o << c >> : s \in shorter, c \in alphabet }

\* The value of a path that was never set
Unset == << "<undefined>" >>

----------------------------------------------------------------------------
(* Event model: slug generation, date and time normalization *)

\* .replace(/[^\w\s-]/g, '')
RemoveSpecial(s) ==
    SelectSeq(s, LAMBDA c : IsWordChar(c) \/ IsSpace(c) \/ c = "-")

\* .replace(/\s+/g, '-'): each maximal run of whitespace becomes one hyphen
RECURSIVE SpacesToHyphen(_)
SpacesToHyphen(s) ==
    IF s = << >> THEN << >>
    ELSE IF IsSpace(s[1])
         THEN IF Len(s) > 1 /\ IsSpace(s[2])
              THEN SpacesToHyphen(Tail(s))
              ELSE << "-" >> \o SpacesToHyphen(Tail(s))
         ELSE << s[1] >> \o SpacesToHyphen(Tail(s))

\* .replace(/-+/g, '-'): each maximal run of hyphens becomes one hyphen
RECURSIVE CollapseHyphens(_)
CollapseHyphens(s) ==
    IF s = << >> THEN << >>
    ELSE IF s[1] = "-" /\ Len(s) > 1 /\ s[2] = "-"
         THEN CollapseHyphens(Tail(s))
         ELSE << s[1] >> \o CollapseHyphens(Tail(s))

\* this.title.toLowerCase().replace(...).replace(...).replace(...).trim()
DeriveSlug(title) ==
    StrTrim(CollapseHyphens(SpacesToHyphen(RemoveSpecial(StrToLower(title)))))

\* The schema setters: title { trim }, slug { lowercase, trim }
TitleSetter(v) == StrTrim(v)
SlugSetter(v) == StrTrim(StrToLower(v))

\* /^\d{4}-\d{2}-\d{2}$/.test(s)
DateRegexTest(s) ==
    /\ Len(s) = 10
    /\ \A i \in {1, 2, 3, 4, 6, 7, 9, 10} : IsDigit(s[i])
    /\ s[5] = "-"
    /\ s[8] = "-"

IsLeapYear(y) == (y % 4 = 0 /\ y % 100 # 0) \/ y % 400 = 0
DaysInMonth(y, m) ==
    IF m = 2 THEN (IF IsLeapYear(y) THEN 29 ELSE 28)
    ELSE IF m \in {4, 6, 9, 11} THEN 30 ELSE 31

NaN == [ valid |-> FALSE, y |-> 0, m |-> 0, d |-> 0 ]

\* new Date(s) for the ISO 8601 UTC form YYYY-MM-DDTHH:MM:SSZ, and for text with
\* no digit in it (which no Date format accepts); the inputs of the model are of
\* these two kinds. The result is the UTC calendar date, or NaN.
JsDateParse(s) ==
    IF /\ Len(s) = 20
       /\ DateRegexTest(SubSeq(s, 1, 10))
       /\ s[11] = "T" /\ s[14] = ":" /\ s[17] = ":" /\ s[20] = "Z"
       /\ \A i \in {12, 13, 15, 16, 18, 19} : IsDigit(s[i])
    THEN LET y == ParseInt(SubSeq(s, 1, 4))
             m == ParseInt(SubSeq(s, 6, 7))
             d == ParseInt(SubSeq(s, 9, 10))
             hh == ParseInt(SubSeq(s, 12, 13))
             mi == ParseInt(SubSeq(s, 15, 16))
             ss == ParseInt(SubSeq(s, 18, 19))
         IN IF /\ m \in 1..12
               /\ d >= 1 /\ d <= DaysInMonth(y, m)
               /\ hh <= 23 /\ mi <= 59 /\ ss <= 59
            THEN [ valid |-> TRUE, y |-> y, m |-> m, d |-> d ]
            ELSE NaN
    ELSE NaN

\* parsedDate.toISOString().split('T')[0]
ToISODate(p) ==
    PadStart(NumToString(p.y), 4) \o << "-" >> \o PadStart(NumToString(p.m), 2)
        \o << "-" >> \o PadStart(NumToString(p.d), 2)

\* The date section of the hook: [value, ret]; ret is what the hook returns there
NormalizeDate(date) ==
    IF DateRegexTest(date)
    THEN [ value |-> date, ret |-> "none" ]
    ELSE LET parsedDate == JsDateParse(date)
         IN IF ~parsedDate.valid
            THEN [ value |-> date, ret |-> "InvalidDate" ]
            ELSE [ value |-> ToISODate(parsedDate), ret |-> "none" ]

\* /^([01]\d|2[0-3]):([0-5]\d)$/.test(s)
TimeRegexTest(s) ==
    /\ Len(s) = 5
    /\ \/ s[1] \in {"0", "1"} /\ IsDigit(s[2])
       \/ s[1] = "2" /\ s[2] \in {"0", "1", "2", "3"}
    /\ s[3] = ":"
    /\ s[4] \in {"0", "1", "2", "3", "4", "5"}
    /\ IsDigit(s[5])

\* s.match(/^(\d{1,2}):(\d{2})$/): the two groups, or no match
NoMatch == [ matched |-> FALSE, g1 |-> << >>, g2 |-> << >> ]
TimePartsMatch(s) ==
    IF /\ Len(s) \in {4, 5}
       /\ s[Len(s) - 2] = ":"
       /\ \A i \in (1..Len(s)) \ {Len(s) - 2} : IsDigit(s[i])
    THEN [ matched |-> TRUE,
           g1 |-> SubSeq(s, 1, Len(s) - 3),
           g2 |-> SubSeq(s, Len(s) - 1, Len(s)) ]
    ELSE NoMatch

\* hours > 23 || minutes > 59
HoursOutOfRange(hours, minutes) == hours > 23 \/ minutes > 59

\* The time section of the hook: [value, ret]
NormalizeTime(time) ==
    IF TimeRegexTest(time)
    THEN [ value |-> time, ret |-> "none" ]
    ELSE LET timeParts == TimePartsMatch(time)
         IN IF ~timeParts.matched
            THEN [ value |-> time, ret |-> "InvalidTimeFormat" ]
            ELSE LET hours == ParseInt(timeParts.g1)
                     minutes == ParseInt(timeParts.g2)
                 IN IF HoursOutOfRange(hours, minutes)
                    THEN [ value |-> time, ret |-> "InvalidTimeRange" ]
                    ELSE [ value |-> PadStart(NumToString(hours), 2) \o << ":" >>
                                       \o PadStart(NumToString(minutes), 2),
                           ret |-> "none" ]

----------------------------------------------------------------------------
(* Event model: documents, the pre-save hook and save() *)

NoEvent == [ present |-> FALSE, title |-> << >>, slug |-> << >>,
             date |-> << >>, time |-> << >> ]

EventIds == 1..MaxEvents

\* The hook with the slug left alone when the caller has set one
PreSaveSlugKeepsCallerSlug(doc, mod) ==
    IF mod.title /\ ~mod.slug THEN SlugSetter(DeriveSlug(doc.title)) ELSE doc.slug

\* if (this.isModified('title')) this.slug = ...; the assignment runs the setters
PreSaveSlug(doc, mod) ==
    IF mod.title THEN SlugSetter(DeriveSlug(doc.title)) ELSE doc.slug

\* EventSchema.pre('save', async function () {...}): the document as the hook
\* leaves it, the value the async function returns, and whether it threw. The
\* function has no throw statement: every error is handed back with return, and
\* a return ends the hook there.
PreSaveEvent(doc, mod) ==
    LET d1 == [ doc EXCEPT !.slug = PreSaveSlug(doc, mod) ]
        nd == NormalizeDate(d1.date)
    IN IF mod.date /\ nd.ret # "none"
       THEN [ doc |-> d1, ret |-> nd.ret, threw |-> FALSE ]
       ELSE LET d2 == IF mod.date THEN [ d1 EXCEPT !.date = nd.value ] ELSE d1
                nt == NormalizeTime(d2.time)
            IN IF mod.time /\ nt.ret # "none"
               THEN [ doc |-> d2, ret |-> nt.ret, threw |-> FALSE ]
               ELSE [ doc |-> IF mod.time THEN [ d2 EXCEPT !.time = nt.value ]
                                           ELSE d2,
                      ret |-> "none", threw |-> FALSE ]

\* required: true on title, date and time (an empty string is not a value)
RequiredOk(doc) ==
    /\ doc.title # << >> /\ doc.title # Unset
    /\ doc.date # << >> /\ doc.date # Unset
    /\ doc.time # << >> /\ doc.time # Unset

\* The unique index on slug
SlugTaken(store, id, slug) ==
    \E other \in EventIds : other # id /\ store[other].present
                             /\ store[other].slug = slug

\* document.save(): validation, then the pre-save hook, then the write. A hook
\* that is an async function fails the save only by throwing (a rejected
\* promise); the value it resolves with is not looked at.
SaveEvent(store, id, cand, mod) ==
    IF ~RequiredOk(cand)
    THEN [ outcome |-> "ValidationError", store |-> store, ret |-> "none" ]
    ELSE LET h == PreSaveEvent(cand, mod)
         IN IF h.threw
            THEN [ outcome |-> "HookError", store |-> store, ret |-> h.ret ]
            ELSE IF SlugTaken(store, id, h.doc.slug)
                 THEN [ outcome |-> "DuplicateKey", store |-> store, ret |-> h.ret ]
                 ELSE [ outcome |-> "committed",
                        store |-> [ store EXCEPT ![id] = h.doc ],
                        ret |-> h.ret ]

FreeEventIds == { id \in EventIds : ~events[id].present }

\* new Event({title, slug, date, time}).save(); slugIn = Unset: no slug given
InsertEvent(title, slugIn, date, time) ==
    /\ FreeEventIds # {}
    /\ LET id == SetMin(FreeEventIds)
           cand == [ present |-> TRUE,
                     title |-> TitleSetter(title),
                     slug |-> IF slugIn = Unset THEN Unset ELSE SlugSetter(slugIn),
                     date |-> date,
                     time |-> time ]
           mod == [ title |-> TRUE, slug |-> slugIn # Unset,
                    date |-> TRUE, time |-> TRUE ]
           r == SaveEvent(events, id, cand, mod)
       IN events' = r.store

\* A loaded document with some paths assigned, then save(); Unset: not assigned.
\* isModified(path) holds when the assigned value, after its setter, differs.
UpdateEvent(id, title, slugIn, date, time) ==
    /\ events[id].present
    /\ LET old == events[id]
           cand == [ present |-> TRUE,
                     title |-> IF title = Unset THEN old.title ELSE TitleSetter(title),
                     slug |-> IF slugIn = Unset THEN old.slug ELSE SlugSetter(slugIn),
                     date |-> IF date = Unset THEN old.date ELSE date,
                     time |-> IF time = Unset THEN old.time ELSE time ]
           mod == [ title |-> cand.title # old.title, slug |-> cand.slug # old.slug,
                    date |-> cand.date # old.date, time |-> cand.time # old.time ]
           r == SaveEvent(events, id, cand, mod)
       IN events' = r.store

----------------------------------------------------------------------------
(* Inputs of the Event specifications *)

TitleTechMeetup == << "T","e","c","h"," ","M","e","e","t","u","p" >>
TitleGo == << "G","o" >>
TitleBangGo == << "!"," ","G","o" >>
TitleBlank == << " " >>
SlugMySlug == << " ","M","y","-","S","l","u","g" >>
DateCanonical == << "2","0","2","4","-","0","5","-","0","1" >>
DateIsoInstant == << "2","0","2","4","-","0","6","-","0","2","T",
                     "1","0",":","0","0",":","0","0","Z" >>
DateNotADate == << "n","o","t","-","a","-","d","a","t","e" >>
Time0905 == << "0","9",":","0","5" >>
Time905 == << "9",":","0","5" >>
Time95 == << "9",":","5" >>
Time2500 == << "2","5",":","0","0" >>

EventTitles == { TitleGo, TitleBangGo, TitleBlank }
EventSlugInputs == { SlugMySlug }
EventDates == { DateIsoInstant, DateNotADate }
EventTimes == { Time905, Time2500 }

TitleAlphabet == { "A", "b", "1", " ", "-", "!", "_" }
TimeAlphabet == { "0", "2", "4", "5", "9", ":" }

InitEvents == events = [ id \in EventIds |-> NoEvent ]

----------------------------------------------------------------------------
(* connectDB: the cached connection and its single in-flight promise *)

AttemptIds == 1..MaxAttempts
CallerIds == 1..NCallers

IdleCaller == [ pc |-> "idle", awaits |-> 0, result |-> 0, error |-> "none" ]

InitConn ==
    /\ cached = [ conn |-> 0, promise |-> 0 ]
    /\ attempts = [ k \in AttemptIds |-> "unused" ]
    /\ waiters = [ k \in AttemptIds |-> << >> ]
    /\ callers = [ c \in CallerIds |-> IdleCaller ]
    /\ microtasks = << >>
    /\ uriSet \in BOOLEAN
    /\ nCalls = 0

UnusedAttempts == { k \in AttemptIds : attempts[k] = "unused" }

\* A connect whose promise is not kept in the cache
CacheAttemptDropped(k) == cached

\* cached.promise = mongoose.connect(...).then(...)
CacheAttempt(k) == [ cached EXCEPT !.promise = k ]

\* A catch block that leaves the failed promise in the cache
ClearOnErrorSkipped == cached

\* catch (error) { cached.promise = null; throw error; }
ClearOnError == [ cached EXCEPT !.promise = 0 ]

\* connectDB() from its first line to its first return, throw or await. A call is
\* a job of its own: it never runs between the reactions of one settled promise,
\* which the engine queues together.
ConnectDBCall(c) ==
    /\ callers[c].pc # "awaiting"
    /\ microtasks = << >>
    /\ nCalls < MaxCalls
    /\ nCalls' = nCalls + 1
    /\ uriSet' = uriSet
    /\ IF cached.conn # 0
       THEN \* if (cached.conn) return cached.conn
            /\ callers' = [ callers EXCEPT
                   ![c] = [ pc |-> "returned", awaits |-> 0,
                            result |-> cached.conn, error |-> "none" ] ]
            /\ UNCHANGED << cached, attempts, waiters, microtasks >>
       ELSE IF cached.promise = 0 /\ ~uriSet
       THEN \* if (!MONGODB_URI) throw new Error(...)
            /\ callers' = [ callers EXCEPT
                   ![c] = [ pc |-> "threw", awaits |-> 0,
                            result |-> 0, error |-> "ConfigError" ] ]
            /\ UNCHANGED << cached, attempts, waiters, microtasks >>
       ELSE /\ cached.promise = 0 => UnusedAttempts # {}
            /\ LET started == cached.promise = 0
                   k == SetMin(UnusedAttempts)
                   cache1 == IF started THEN CacheAttempt(k) ELSE cached
                   awaited == cache1.promise
               IN /\ cached' = cache1
                  /\ attempts' = IF started THEN [ attempts EXCEPT ![k] = "pending" ]
                                            ELSE attempts
                  \* await cached.promise: of a pending promise, the caller joins
                  \* its reactions; of a settled one or of null, it resumes next
                  /\ callers' = [ callers EXCEPT
                         ![c] = [ pc |-> "awaiting", awaits |-> awaited,
                                  result |-> 0, error |-> "none" ] ]
                  /\ IF awaited # 0 /\ attempts'[awaited] = "pending"
                     THEN /\ waiters' = [ waiters EXCEPT
                                 ![awaited] = Append(waiters[awaited], c) ]
                          /\ microtasks' = microtasks
                     ELSE /\ waiters' = waiters
                          /\ microtasks' = Append(microtasks, c)

\* mongoose.connect settles: its reactions are queued, in the order of the awaits
AttemptSettles(k, ok) ==
    /\ attempts[k] = "pending"
    /\ microtasks = << >>
    /\ attempts' = [ attempts EXCEPT ![k] = IF ok THEN "fulfilled" ELSE "rejected" ]
    /\ microtasks' = waiters[k]
    /\ waiters' = [ waiters EXCEPT ![k] = << >> ]
    /\ UNCHANGED << cached, callers, uriSet, nCalls >>

\* The caller at the head of the microtask queue resumes after its await
ConnectDBResume ==
    /\ microtasks # << >>
    /\ LET c == Head(microtasks)
           k == callers[c].awaits
       IN IF k # 0 /\ attempts[k] = "rejected"
          THEN /\ cached' = ClearOnError
               /\ callers' = [ callers EXCEPT
                      ![c] = [ pc |-> "threw", awaits |-> k,
                               result |-> 0, error |-> "ConnectError" ] ]
          ELSE \* cached.conn = await cached.promise; return cached.conn
               /\ cached' = [ cached EXCEPT !.conn = k ]
               /\ callers' = [ callers EXCEPT
                      ![c] = [ pc |-> "returned", awaits |-> k,
                               result |-> k, error |-> "none" ] ]
    /\ microtasks' = Tail(microtasks)
    /\ UNCHANGED << attempts, waiters, uriSet, nCalls >>

----------------------------------------------------------------------------
(* Booking model: validation, the pre-save existence check, the write *)

BookingIds == 1..MaxBookings
SaverIds == 1..NSavers

NoBooking == [ present |-> FALSE, eventId |-> 0, email |-> << >> ]

IdleSave == [ pc |-> "idle", id |-> 0, isNew |-> FALSE, eventId |-> 0,
              email |-> << >>, modEventId |-> FALSE, check |-> "none",
              outcome |-> "none", wrote |-> FALSE ]

InitBookings ==
    /\ bookings = [ b \in BookingIds |-> NoBooking ]
    /\ bsave = [ p \in SaverIds |-> IdleSave ]

\* /^[^\s@]+@[^\s@]+\.[^\s@]+$/.test(email)
EmailRegexTest(s) ==
    \E i \in 1..Len(s) : \E j \in 1..Len(s) :
        /\ 1 < i /\ i + 1 < j /\ j < Len(s)
        /\ s[i] = "@"
        /\ s[j] = "."
        /\ \A n \in (1..Len(s)) \ {i} : ~IsSpace(s[n]) /\ s[n] # "@"

\* email: { lowercase: true, trim: true }
EmailSetter(v) == StrTrim(StrToLower(v))

InFlight(p) == bsave[p].pc \in {"exists", "write"}

FreeBookingIds ==
    { b \in BookingIds : /\ ~bookings[b].present
                         /\ \A p \in SaverIds : ~(InFlight(p) /\ bsave[p].id = b) }

\* A hook that calls next() whatever the query answered
ExistsVerdictIgnored(eventExists) == "proceed"

\* if (!eventExists) return next(new Error(...)); ... next()
ExistsVerdict(eventExists) ==
    IF ~eventExists THEN "DanglingReference" ELSE "proceed"

\* A save that has ended: its document is out of scope, its verdict is kept
Finished(s) ==
    [ s EXCEPT !.pc = "done", !.id = 0, !.isNew = FALSE, !.eventId = 0,
               !.email = << >> ]

\* booking.save() up to the first await of the hook: the setters, the schema
\* validation, and the hook's isModified('eventId') test. id = 0: a new document;
\* eventId = 0 and email = Unset: the path is not assigned.
BookingSaveStart(p, id, eventId, email) ==
    /\ ~InFlight(p)
    /\ IF id = 0 THEN FreeBookingIds # {}
       ELSE /\ bookings[id].present
            /\ \A q \in SaverIds : ~(InFlight(q) /\ bsave[q].id = id)
    /\ LET isNew == id = 0
           docId == IF isNew THEN SetMin(FreeBookingIds) ELSE id
           old == bookings[docId]
           candEvent == IF eventId = 0 THEN old.eventId ELSE eventId
           candEmail == IF email = Unset THEN old.email ELSE EmailSetter(email)
           modEvent == IF isNew THEN eventId # 0 ELSE candEvent # old.eventId
           valid == candEvent # 0 /\ EmailRegexTest(candEmail)
           base == [ pc |-> "done", id |-> docId, isNew |-> isNew,
                     eventId |-> candEvent, email |-> candEmail,
                     modEventId |-> modEvent, check |-> "none",
                     outcome |-> "ValidationError", wrote |-> FALSE ]
       IN bsave' = [ bsave EXCEPT ![p] =
              IF ~valid THEN Finished(base)
              ELSE IF modEvent
                   THEN [ base EXCEPT !.pc = "exists", !.outcome = "none" ]
                   ELSE [ base EXCEPT !.pc = "write", !.outcome = "none" ] ]
    /\ UNCHANGED bookings

\* await Event.exists({ _id: this.eventId }) resolves, or the query throws
BookingExistsResolves(p, dbOk) ==
    /\ bsave[p].pc = "exists"
    /\ LET eventExists == events[bsave[p].eventId].present
       IN bsave' = [ bsave EXCEPT ![p] =
              IF ~dbOk
              THEN Finished([ @ EXCEPT !.check = "error",
                                       !.outcome = "DependencyFailure" ])
              ELSE IF ExistsVerdict(eventExists) = "proceed"
                   THEN [ @ EXCEPT !.pc = "write",
                              !.check = IF eventExists THEN "exists" ELSE "absent" ]
                   ELSE Finished([ @ EXCEPT !.check = "absent",
                                            !.outcome = "DanglingReference" ]) ]
    /\ UNCHANGED bookings

\* After next(): the document is written
BookingWrite(p) ==
    /\ bsave[p].pc = "write"
    /\ bookings' = [ bookings EXCEPT ![bsave[p].id] =
           [ present |-> TRUE, eventId |-> bsave[p].eventId,
             email |-> bsave[p].email ] ]
    /\ bsave' = [ bsave EXCEPT ![p] =
           Finished([ @ EXCEPT !.outcome = "committed", !.wrote = TRUE ]) ]

EmailUntidy == << " ","A","@","b",".","c"," " >>
EmailNoDot == << "a","@","b" >>
BookingEmails == { EmailUntidy, EmailNoDot }

----------------------------------------------------------------------------
(* GET /api/events/[slug] *)

\* /^[a-z0-9]+(?:-[a-z0-9]+)*$/ read from position i on; st is what was read
\* last: "start", "alnum" (inside [a-z0-9]+) or "hyphen" (just after a -)
SlugAlnums == LowerLetters \cup Digits
IsSlugAlnum(c) == c \in SlugAlnums
RECURSIVE SlugRegexFrom(_, _, _)
SlugRegexFrom(s, i, st) ==
    IF i > Len(s) THEN st = "alnum"
    ELSE IF IsSlugAlnum(s[i]) THEN SlugRegexFrom(s, i + 1, "alnum")
    ELSE IF s[i] = "-" /\ st = "alnum" THEN SlugRegexFrom(s, i + 1, "hyphen")
    ELSE FALSE

\* A test that lets every slug through
isValidSlugAlways(slug) == TRUE

\* function isValidSlug(slug) { return slugRegex.test(slug) }
isValidSlug(slug) == SlugRegexFrom(slug, 1, "start")

\* A normalization that also turns spaces into hyphens and drops punctuation
NormalizeSlugAsTitle(slug) == DeriveSlug(slug)

\* slug.toLowerCase().trim()
NormalizeSlug(slug) == StrTrim(StrToLower(slug))

\* Event.findOne({ slug }).lean(): the ids of the matching documents
FindBySlug(store, slug) ==
    { id \in EventIds : store[id].present /\ store[id].slug = slug }

\* The status for an error that reaches the catch block, answered as not found
CatchStatusNotFound == 404

\* catch (error) { ... { status: 500 } }
CatchStatus == 500

IdleReq == [ pc |-> "idle", slug |-> << >>, normalized |-> << >>, status |-> 0,
             connectCalled |-> FALSE, queried |-> FALSE, connFailed |-> FALSE,
             queryFailed |-> FALSE, matches |-> {}, body |-> 0 ]

RequestIds == 1..NRequests

InitGet == req = [ c \in CallerIds |-> IdleReq ]

\* The handler from its first line to the await of connectDB()
GetRequest(c, slug) ==
    /\ req[c].pc = "idle"
    /\ callers[c].pc = "idle"
    /\ IF slug = << >> \/ StrTrim(slug) = << >>
       THEN \* if (!slug || slug.trim() === '') -> 400
            /\ req' = [ req EXCEPT ![c] =
                   [ IdleReq EXCEPT !.pc = "responded", !.slug = slug,
                                    !.status = 400 ] ]
            /\ UNCHANGED connVars
       ELSE LET normalizedSlug == NormalizeSlug(slug)
            IN IF ~isValidSlug(normalizedSlug)
               THEN /\ req' = [ req EXCEPT ![c] =
                           [ IdleReq EXCEPT !.pc = "responded", !.slug = slug,
                                            !.normalized = normalizedSlug,
                                            !.status = 400 ] ]
                    /\ UNCHANGED connVars
               ELSE \* await connectDB()
                    /\ ConnectDBCall(c)
                    /\ req' = [ req EXCEPT ![c] =
                           [ IdleReq EXCEPT !.pc = "connecting", !.slug = slug,
                                            !.normalized = normalizedSlug,
                                            !.connectCalled = TRUE ] ]

\* connectDB() has returned or thrown: the query is sent, or the catch answers
GetConnected(c) ==
    /\ req[c].pc = "connecting"
    /\ callers[c].pc \in {"returned", "threw"}
    /\ req' = [ req EXCEPT ![c] =
           IF callers[c].pc = "threw"
           THEN [ @ EXCEPT !.pc = "responded", !.connFailed = TRUE,
                           !.status = CatchStatus ]
           ELSE [ @ EXCEPT !.pc = "querying", !.queried = TRUE ] ]
    /\ UNCHANGED connVars

\* await Event.findOne(...) resolves with a document or null, or throws
GetQueryResolves(c, dbOk) ==
    /\ req[c].pc = "querying"
    /\ LET found == FindBySlug(events, req[c].normalized)
       IN IF ~dbOk
          THEN req' = [ req EXCEPT ![c] =
                   [ @ EXCEPT !.pc = "responded", !.queryFailed = TRUE,
                              !.status = CatchStatus ] ]
          ELSE IF found = {}
          THEN req' = [ req EXCEPT ![c] =
                   [ @ EXCEPT !.pc = "responded", !.status = 404 ] ]
          ELSE \E id \in found :
                   req' = [ req EXCEPT ![c] =
                       [ @ EXCEPT !.pc = "responded", !.status = 200,
                                  !.matches = found, !.body = id ] ]
    /\ UNCHANGED connVars

\* The response is sent; the next request may come
GetDone(c) ==
    /\ req[c].pc = "responded"
    /\ req' = [ req EXCEPT ![c] = IdleReq ]
    /\ callers' = [ callers EXCEPT ![c] = IdleCaller ]
    /\ UNCHANGED << cached, attempts, waiters, microtasks, uriSet, nCalls >>

SlugTechMeetup == << "t","e","c","h","-","m","e","e","t","u","p" >>
SlugTechMeetupRaw == << "T","e","c","h"," ","M","e","e","t","u","p","!" >>
SlugTechMeetupLowered == << "t","e","c","h"," ","m","e","e","t","u","p","!" >>
SlugTechMeetupUntidy == << " ","T","E","C","H","-","M","e","e","t","u","p"," " >>
SlugUpperCase == << "U","P","P","E","R","_","C","A","S","E" >>
SlugHyphenGo == << "-","g","o" >>
SlugNope == << "n","o","p","e" >>
SlugAlphabet == { "a", "B", "-", " ", "_" }

SlugBlank == << " ", " " >>
GetSlugs == { << >>, SlugTechMeetupRaw, SlugTechMeetupUntidy, SlugNope }
ProbeSlugs ==
    { SlugBlank, SlugTechMeetup, SlugTechMeetupRaw, SlugTechMeetupUntidy,
      SlugUpperCase, SlugHyphenGo, SlugNope }

\* The store after one more insert
StoreAfterInsert(store, title) ==
    LET free == { id \in EventIds : ~store[id].present }
        cand == [ present |-> TRUE, title |-> TitleSetter(title), slug |-> Unset,
                  date |-> DateCanonical, time |-> Time0905 ]
        mod == [ title |-> TRUE, slug |-> FALSE, date |-> TRUE, time |-> TRUE ]
    IN IF free = {} THEN store
       ELSE SaveEvent(store, SetMin(free), cand, mod).store

EmptyStore == [ id \in EventIds |-> NoEvent ]
GetStores ==
    { EmptyStore,
      StoreAfterInsert(EmptyStore, TitleTechMeetup),
      StoreAfterInsert(StoreAfterInsert(EmptyStore, TitleTechMeetup), TitleBangGo) }

----------------------------------------------------------------------------
(* Specifications *)

\* Event saves: inserts and updates of any paths
EventInsert ==
    \E title \in EventTitles, slugIn \in EventSlugInputs \cup {Unset},
       date \in EventDates, time \in EventTimes :
        InsertEvent(title, slugIn, date, time)

EventUpdate ==
    \E id \in EventIds :
    \E title \in EventTitles \cup {Unset}, slugIn \in EventSlugInputs \cup {Unset},
       date \in EventDates \cup {Unset}, time \in EventTimes \cup {Unset} :
        UpdateEvent(id, title, slugIn, date, time)

InitEvent ==
    /\ InitEvents /\ probe = << >>
    /\ InitBookings /\ InitConn /\ uriSet /\ InitGet

NextEvent ==
    \/ EventInsert /\ UNCHANGED << probe, bookingVars, connVars, getVars >>
    \/ EventUpdate /\ UNCHANGED << probe, bookingVars, connVars, getVars >>

SpecEvent == InitEvent /\ [][NextEvent]_vars

\* The slug of every title over TitleAlphabet, by one insert each
InitSlug ==
    /\ InitEvents /\ probe \in StringsUpTo(TitleAlphabet, MaxTitleLen)
    /\ InitBookings /\ InitConn /\ uriSet /\ InitGet

SaveProbeTitle ==
    /\ ~events[1].present
    /\ InsertEvent(probe, Unset, DateCanonical, Time0905)
    /\ UNCHANGED << probe, bookingVars, connVars, getVars >>

SpecSlug == InitSlug /\ [][SaveProbeTitle]_vars

\* The stored time of every time input over TimeAlphabet, by one insert each
InitTime ==
    /\ InitEvents /\ probe \in StringsUpTo(TimeAlphabet, MaxTimeLen)
    /\ InitBookings /\ InitConn /\ uriSet /\ InitGet

SaveProbeTime ==
    /\ ~events[1].present
    /\ InsertEvent(TitleTechMeetup, Unset, DateCanonical, probe)
    /\ UNCHANGED << probe, bookingVars, connVars, getVars >>

SpecTime == InitTime /\ [][SaveProbeTime]_vars

\* Booking saves, concurrent with each other and with Event inserts
BookingEventInsert ==
    /\ InsertEvent(TitleTechMeetup, Unset, DateCanonical, Time0905)
    /\ UNCHANGED << probe, bookingVars, connVars, getVars >>

BookingStart ==
    /\ \E p \in SaverIds, id \in {0} \cup BookingIds, eventId \in {0} \cup EventIds,
          email \in BookingEmails \cup {Unset} :
           BookingSaveStart(p, id, eventId, email)
    /\ UNCHANGED << eventVars, connVars, getVars >>

BookingCheck ==
    /\ \E p \in SaverIds, dbOk \in BOOLEAN : BookingExistsResolves(p, dbOk)
    /\ UNCHANGED << eventVars, connVars, getVars >>

BookingCommit ==
    /\ \E p \in SaverIds : BookingWrite(p)
    /\ UNCHANGED << eventVars, connVars, getVars >>

InitBooking ==
    /\ InitEvents /\ probe = << >>
    /\ InitBookings /\ InitConn /\ uriSet /\ InitGet

NextBooking == BookingEventInsert \/ BookingStart \/ BookingCheck \/ BookingCommit

SpecBooking == InitBooking /\ [][NextBooking]_vars

\* connectDB under concurrent callers
ConnCall ==
    /\ \E c \in CallerIds : ConnectDBCall(c)
    /\ UNCHANGED << eventVars, bookingVars, getVars >>

ConnSettle ==
    /\ \E k \in AttemptIds, ok \in BOOLEAN : AttemptSettles(k, ok)
    /\ UNCHANGED << eventVars, bookingVars, getVars >>

ConnResume ==
    /\ ConnectDBResume
    /\ UNCHANGED << eventVars, bookingVars, getVars >>

InitConnSpec ==
    /\ InitEvents /\ probe = << >>
    /\ InitBookings /\ InitConn /\ InitGet

NextConn == ConnCall \/ ConnSettle \/ ConnResume

SpecConn == InitConnSpec /\ [][NextConn]_vars

\* GET requests, concurrent, over a store that holds zero, one or two events
GetStart ==
    /\ \E c \in RequestIds, slug \in GetSlugs : GetRequest(c, slug)
    /\ UNCHANGED << eventVars, bookingVars >>

GetConnect ==
    /\ \E c \in RequestIds : GetConnected(c)
    /\ UNCHANGED << eventVars, bookingVars >>

GetQuery ==
    /\ \E c \in RequestIds, dbOk \in BOOLEAN : GetQueryResolves(c, dbOk)
    /\ UNCHANGED << eventVars, bookingVars >>

GetFinish ==
    /\ \E c \in RequestIds : GetDone(c)
    /\ UNCHANGED << eventVars, bookingVars >>

GetSettle ==
    /\ \E k \in AttemptIds, ok \in BOOLEAN : AttemptSettles(k, ok)
    /\ UNCHANGED << eventVars, bookingVars, getVars >>

GetResume ==
    /\ ConnectDBResume
    /\ UNCHANGED << eventVars, bookingVars, getVars >>

InitGetSpec ==
    /\ events \in GetStores /\ probe = << >>
    /\ InitBookings /\ InitConn /\ InitGet

NextGet ==
    GetStart \/ GetConnect \/ GetQuery \/ GetFinish \/ GetSettle \/ GetResume

SpecGet == InitGetSpec /\ [][NextGet]_vars

\* One GET request for every slug over SlugAlphabet
ProbeStart ==
    /\ GetRequest(1, probe)
    /\ UNCHANGED << eventVars, bookingVars >>

InitGetProbe ==
    /\ events \in GetStores /\ probe \in ProbeSlugs \cup StringsUpTo(SlugAlphabet, MaxSlugLen)
    /\ InitBookings /\ InitConn /\ InitGet

NextGetProbe ==
    ProbeStart \/ GetConnect \/ GetQuery \/ GetFinish \/ GetSettle \/ GetResume

SpecGetProbe == InitGetProbe /\ [][NextGetProbe]_vars

----------------------------------------------------------------------------
(* Properties *)

\* The shape the claims ask of a slug: only [a-z0-9-], no hyphen at either end,
\* no two hyphens in a row
WellFormedSlug(s) ==
    /\ \A i \in 1..Len(s) : s[i] \in SlugAlnums \cup {"-"}
    /\ \A i \in 1..(Len(s) - 1) : ~(s[i] = "-" /\ s[i + 1] = "-")
    /\ s # << >> => s[1] # "-" /\ s[Len(s)] # "-"

\* C1: no Event is persisted with an invalid date or time: a save whose date is
\* neither YYYY-MM-DD nor parsable, or whose time is unparsable or out of range,
\* fails and commits nothing, so every stored date and time is canonical.
C1_NoInvalidDateOrTimePersisted ==
    \A id \in EventIds :
        events[id].present =>
            DateRegexTest(events[id].date) /\ TimeRegexTest(events[id].time)

\* C7 as stated: every persisted Event's slug equals the slug derived from its
\* title; callers cannot set slug independently of title.
C7_SlugAlwaysDerivedFromTitle ==
    \A id \in EventIds :
        events[id].present => events[id].slug = DeriveSlug(events[id].title)

\* C7 as amended: a save in which the title is new or changed stores the slug
\* derived from that title, whatever slug the caller gave; a save that changes
\* the slug and not the title stores the caller's slug (lowercased, trimmed).
C7_SlugDerivedWhenTitleSaved ==
    [][ \A id \in EventIds :
          /\ ( /\ events'[id].present
               /\ (~events[id].present \/ events'[id].title # events[id].title) )
             => events'[id].slug = DeriveSlug(events'[id].title)
          /\ ( /\ events[id].present
               /\ events'[id].title = events[id].title
               /\ events'[id].slug # events[id].slug )
             => \E v \in EventSlugInputs :
                    events'[id].slug = StrTrim(StrToLower(v)) ]_vars

\* C7's case: one event saved with a caller's slug over its title's, another
\* whose slug is its title's
C7_Witness ==
    \E id \in EventIds : \E other \in EventIds :
        /\ events[id].present /\ events[other].present
        /\ events[id].slug = << "m","y","-","s","l","u","g" >>
        /\ events[id].slug # DeriveSlug(events[id].title)
        /\ events[other].title = TitleBangGo
        /\ events[other].slug = << "-","g","o" >>

\* C8: for every valid title the derived slug holds only lowercase alphanumerics
\* and single hyphens, with no hyphen at either end.
C8_DerivedSlugWellFormed ==
    events[1].present => WellFormedSlug(events[1].slug)

\* The hour and the minute of an H:MM or HH:MM text
C9_IsHMM(s) ==
    \/ Len(s) = 4 /\ IsDigit(s[1]) /\ s[2] = ":" /\ IsDigit(s[3]) /\ IsDigit(s[4])
    \/ /\ Len(s) = 5 /\ IsDigit(s[1]) /\ IsDigit(s[2]) /\ s[3] = ":"
       /\ IsDigit(s[4]) /\ IsDigit(s[5])
C9_Hour(s) ==
    IF Len(s) = 4 THEN ValueOf[s[1]] ELSE 10 * ValueOf[s[1]] + ValueOf[s[2]]
C9_Minute(s) == 10 * ValueOf[s[Len(s) - 1]] + ValueOf[s[Len(s)]]
C9_Padded(s) ==
    << DigitSeq[(C9_Hour(s) \div 10) + 1], DigitSeq[(C9_Hour(s) % 10) + 1], ":",
       s[Len(s) - 1], s[Len(s)] >>
C9_InRange(s) == C9_IsHMM(s) /\ C9_Hour(s) <= 23 /\ C9_Minute(s) <= 59

\* C9 as stated: an H:MM or HH:MM time with hour <= 23 and minute <= 59 is stored
\* zero-padded, an HH:MM time is stored unchanged, and "9:5" is stored as "09:05".
C9_TimeStoredPaddedIncluding95 ==
    events[1].present =>
        /\ C9_InRange(probe) => events[1].time = C9_Padded(probe)
        /\ (C9_InRange(probe) /\ Len(probe) = 5) => events[1].time = probe
        /\ probe = Time95 => events[1].time = Time0905

\* C9 as amended: an H:MM or HH:MM time with hour <= 23 and minute <= 59 is stored
\* zero-padded, an HH:MM time is stored unchanged; "9:5" has a one-digit minute,
\* is of neither form, and is never padded: what is stored is "9:5".
C9_TimeStoredPadded ==
    events[1].present =>
        /\ C9_InRange(probe) => events[1].time = C9_Padded(probe)
        /\ (C9_InRange(probe) /\ Len(probe) = 5) => events[1].time = probe
        /\ probe = Time95 => events[1].time = Time95

\* C9's case: "9:05" was saved and is stored as "09:05"
C9_Witness ==
    events[1].present /\ probe = Time905 /\ events[1].time = Time0905

\* C2: a Booking save whose eventId is new or changed writes only after its
\* Event-existence check has answered that the event exists; when the check
\* finds no such event the save fails with DanglingReference and writes nothing;
\* every stored Booking refers to an event of the store.
C2_BookingWrittenOnlyAfterCheck ==
    /\ \A p \in SaverIds :
        /\ (bsave[p].modEventId /\ (bsave[p].wrote \/ bsave[p].pc = "write"))
              => bsave[p].check = "exists"
        /\ bsave[p].check = "absent"
              => /\ bsave[p].outcome = "DanglingReference"
                 /\ bsave[p].pc = "done"
                 /\ ~bsave[p].wrote
        /\ bsave[p].pc = "exists" => ~bsave[p].wrote /\ bsave[p].modEventId
    /\ \A b \in BookingIds :
        bookings[b].present => events[bookings[b].eventId].present

\* C2's case: one save was refused for a missing event, another was written
\* after its check found the event
C2_Witness ==
    \E p \in SaverIds : \E q \in SaverIds :
        /\ bsave[p].outcome = "DanglingReference"
        /\ bsave[q].wrote /\ bsave[q].modEventId /\ bsave[q].check = "exists"

AttemptsIn(st) == { k \in AttemptIds : attempts[k] = st }

C4_FailedAttemptNotCached ==
    /\ microtasks = << >> =>
          (cached.promise # 0 => attempts[cached.promise] # "rejected")
    /\ cached.conn # 0 => attempts[cached.conn] = "fulfilled"
    /\ \A c \in CallerIds :
        (callers[c].awaits # 0 /\ attempts[callers[c].awaits] = "rejected")
            => \/ /\ callers[c].pc = "awaiting"
                  /\ \E i \in 1..Len(microtasks) : microtasks[i] = c
               \/ callers[c].pc = "threw" /\ callers[c].error = "ConnectError"

\* C4's case: two callers got the error of one failed attempt, and a later call
\* connected
C4_Witness ==
    /\ cached.conn # 0
    /\ \E c \in CallerIds : \E d \in CallerIds :
        /\ c # d
        /\ callers[c].pc = "threw" /\ callers[d].pc = "threw"
        /\ callers[c].awaits = callers[d].awaits
        /\ callers[c].awaits # 0

\* C5: a GET whose slug is well-formed after lowercase and trim is answered 200
\* with the event of that slug when the store holds one, 404 when it holds none,
\* and 500 when connectDB or the query failed; a failure is never answered 404.
C5_LookupStatus ==
    \A c \in RequestIds :
        (req[c].pc = "responded"
           /\ StrTrim(StrToLower(req[c].slug)) # << >>
           /\ WellFormedSlug(StrTrim(StrToLower(req[c].slug))))
        => LET wanted == StrTrim(StrToLower(req[c].slug))
               holders == { id \in EventIds :
                              events[id].present /\ events[id].slug = wanted }
               failed == req[c].connFailed \/ req[c].queryFailed
           IN /\ req[c].status \in {200, 404, 500}
              /\ failed <=> req[c].status = 500
              /\ (~failed /\ holders # {}) <=> req[c].status = 200
              /\ (~failed /\ holders = {}) <=> req[c].status = 404
              /\ req[c].status = 200 => req[c].body \in holders

\* C5's case: one request found its event through an untidy slug while another
\* was answered 500 for a failed connection
C5_Witness ==
    \E c \in RequestIds : \E d \in RequestIds :
        /\ req[c].slug = SlugTechMeetupUntidy /\ req[c].status = 200
        /\ events[req[c].body].slug = SlugTechMeetup
        /\ req[d].status = 500 /\ req[d].connFailed

\* C6: a GET whose slug is empty, all whitespace, or ill-formed after lowercase
\* and trim is answered 400, and connectDB and the store are never called.
C6_InvalidSlugNoStoreAccess ==
    (req[1].pc # "idle"
       /\ ( \/ StrTrim(probe) = << >>
            \/ ~WellFormedSlug(StrTrim(StrToLower(probe))) ))
    => /\ req[1].pc = "responded"
       /\ req[1].status = 400
       /\ ~req[1].connectCalled /\ ~req[1].queried
       /\ callers[1].pc = "idle"
       /\ nCalls = 0
       /\ attempts = [ k \in AttemptIds |-> "unused" ]

\* C6's case: UPPER_CASE was answered 400
C6_Witness ==
    probe = SlugUpperCase /\ req[1].pc = "responded" /\ req[1].status = 400

\* C10 as stated: "Tech Meetup!" is normalized to "tech-meetup", passes the shape
\* validation and is looked up: it is not answered 400.
C10_TechMeetupLookedUp ==
    \A c \in RequestIds :
        (req[c].pc # "idle" /\ req[c].slug = SlugTechMeetupRaw)
        => req[c].normalized = SlugTechMeetup /\ req[c].status # 400

\* C10 as amended: "Tech Meetup!" is normalized (lowercase and trim) to
\* "tech meetup!", fails the shape validation and is answered 400 with no store
\* access.
C10_TechMeetupRejected ==
    \A c \in RequestIds :
        (req[c].pc # "idle" /\ req[c].slug = SlugTechMeetupRaw)
        => /\ req[c].normalized = SlugTechMeetupLowered
           /\ req[c].pc = "responded"
           /\ req[c].status = 400
           /\ ~req[c].connectCalled /\ ~req[c].queried

\* C10's case: a request for "Tech Meetup!" has been answered
C10_Witness ==
    \E c \in RequestIds :
        req[c].slug = SlugTechMeetupRaw /\ req[c].pc = "responded"

====
